---- MODULE Spec2Model ----
(***************************************************************************)
(* Frame lifecycle and swap-chain recreation of lve::FirstApp              *)
(* (HelloTriangle/src/first_app.cpp).                                      *)
(*                                                                         *)
(* One control thread runs the constructor and then run(); its position is *)
(* pc.  Window events reach the program only inside glfwPollEvents and     *)
(* glfwWaitEvents, as the batch of events that arrived since the last      *)
(* dispatch.  The device completes submitted work asynchronously           *)
(* (GpuComplete).                                                          *)
(***************************************************************************)
EXTENDS Integers, Sequences, FiniteSets, TLC

\* ---------------------------------------------------------------- bounds
MaxBatch   == 1        \* events dispatched by one glfwPollEvents / glfwWaitEvents
MaxImages  == 2        \* largest image count the platform gives a chain

\* ------------------------------------------------------------- vocabulary
VK_SUCCESS               == "VK_SUCCESS"
VK_SUBOPTIMAL_KHR        == "VK_SUBOPTIMAL_KHR"
VK_ERROR_OUT_OF_DATE_KHR == "VK_ERROR_OUT_OF_DATE_KHR"
VK_ERROR_DEVICE_LOST     == "VK_ERROR_DEVICE_LOST"

VkResults == {VK_SUCCESS, VK_SUBOPTIMAL_KHR, VK_ERROR_OUT_OF_DATE_KHR, VK_ERROR_DEVICE_LOST}

Minimized   == <<0, 0>>
Extents     == {Minimized, <<400, 300>>, <<800, 600>>}
ImageCounts == 1..MaxImages
ImageSlots  == 0..(MaxImages - 1)

Events == [type : {"resize"}, extent : Extents]
            \cup {[type |-> "close", extent |-> Minimized],
                  [type |-> "input", extent |-> Minimized]}

\* What one dispatch can find queued: up to MaxBatch events, in order.
Batches == UNION {[1..n -> Events] : n \in 0..MaxBatch}

RecreatePcs == {"rsc_entry", "rsc_loop", "rsc_read", "rsc_wait", "rsc_idle", "rsc_build",
                "rsc_construct"}

VARIABLES
  pc,                 \* position of the control thread
  caller,             \* who called recreateSwapChain: "ctor", "acquire", "submit"
  winExtent,          \* LveWindow width/height, as getExtent() returns them
  framebufferResized, \* LveWindow resized flag (wasWindowResized)
  shouldClose,        \* LveWindow close flag
  extent,             \* local variable of recreateSwapChain
  waited,             \* this recreateSwapChain went through its wait loop
  lveSwapChain,       \* <<>> (nullptr) or <<chain>>
  previous,           \* the chain moved into the LveSwapChain constructor: <<>> or <<chain>>
  lvePipeline,        \* <<>> (nullptr) or <<pipeline>>
  commandBuffers,     \* vector of command buffers, each "initial" or "recorded"
  imageIndex,         \* local variable of drawFrame
  result,             \* local variable of drawFrame
  inFlight,           \* per image slot: submissions the device has not finished
  acquired,           \* this drawFrame's acquire result ("none" before acquire)
  recorded,           \* this drawFrame recorded a command buffer
  submitted,          \* this drawFrame submitted a command buffer
  recreated,          \* this drawFrame completed a recreateSwapChain
  recording,          \* the commands this drawFrame recorded, in order
  stalePending,       \* "no"; "stale": an acquire returned OUT_OF_DATE and no cycle
                      \* completed since; "rebuilt": and a chain was built since
  suboptimalPending   \* an acquire returned SUBOPTIMAL and no chain was built since

vars == <<pc, caller, winExtent, framebufferResized, shouldClose, extent,
          waited, lveSwapChain, previous, lvePipeline, commandBuffers, imageIndex,
          result, inFlight, acquired, recorded, submitted, recreated, recording,
          stalePending, suboptimalPending>>

windowVars == <<winExtent, framebufferResized, shouldClose>>
chainVars  == <<lveSwapChain, previous, lvePipeline, commandBuffers>>
frameVars  == <<acquired, recorded, submitted, recreated, recording>>

\* ---------------------------------------------------------------- helpers
Degenerate(e) == e[1] = 0 \/ e[2] = 0

SwapChain == lveSwapChain[1]

imageCount == SwapChain.imageCount

DeviceIdle == \A i \in ImageSlots : inFlight[i] = 0

\* Effect of the window callbacks run for the queued events, in order.
RECURSIVE Deliver(_, _)
Deliver(w, evs) ==
  IF evs = <<>> THEN w
  ELSE LET e == Head(evs) IN
       Deliver(CASE e.type = "resize" -> [w EXCEPT !.extent = e.extent, !.resized = TRUE]
                 [] e.type = "close"  -> [w EXCEPT !.close = TRUE]
                 [] OTHER             -> w,
               Tail(evs))

Window == [extent |-> winExtent, resized |-> framebufferResized, close |-> shouldClose]

DispatchEvents(batch) ==
  LET w == Deliver(Window, batch) IN
    /\ winExtent' = w.extent
    /\ framebufferResized' = w.resized
    /\ shouldClose' = w.close

\* ------------------------------------------------------------------- Init
Init ==
  /\ pc = "ctor"
  /\ caller = "ctor"
  /\ winExtent = <<800, 600>>
  /\ framebufferResized = FALSE
  /\ shouldClose = FALSE
  /\ extent = Minimized
  /\ waited = FALSE
  /\ lveSwapChain = <<>>
  /\ previous = <<>>
  /\ lvePipeline = <<>>
  /\ commandBuffers = <<>>
  /\ imageIndex = 0
  /\ result = VK_SUCCESS
  /\ inFlight = [i \in ImageSlots |-> 0]
  /\ acquired = "none"
  /\ recorded = FALSE
  /\ submitted = FALSE
  /\ recreated = FALSE
  /\ recording = <<>>
  /\ stalePending = "no"
  /\ suboptimalPending = FALSE

\* ------------------------------------------------------------ environment
\* The device finishes one submission.
GpuComplete ==
  /\ \E i \in ImageSlots :
        /\ inFlight[i] > 0
        /\ inFlight' = [inFlight EXCEPT ![i] = @ - 1]
  /\ UNCHANGED <<pc, caller, windowVars, extent, waited, chainVars,
                 imageIndex, result, frameVars, stalePending, suboptimalPending>>


\* ------------------------------------------------------------ constructor
\* FirstApp::FirstApp up to its call of recreateSwapChain: loadModels and
\* createPipelineLayout touch nothing the frame loop reads again.
CtorBegin ==
  /\ pc = "ctor"
  /\ pc' = "rsc_entry"
  /\ caller' = "ctor"
  /\ UNCHANGED <<windowVars, extent, waited, chainVars, imageIndex,
                 result, inFlight, frameVars, stalePending, suboptimalPending>>

\* commandBuffers.resize(lveSwapChain->imageCount()) and the allocation.
createCommandBuffers(chain) == [i \in 1..chain.imageCount |-> "initial"]

\* The constructor's createCommandBuffers(); vkAllocateCommandBuffers may fail.
CtorCreateCommandBuffers ==
  /\ pc = "ctor_cb"
  /\ \E ok \in BOOLEAN :
        IF ok THEN /\ commandBuffers' = createCommandBuffers(SwapChain)
                   /\ pc' = "run_loop"
              ELSE /\ commandBuffers' = [i \in 1..imageCount |-> "unallocated"]
                   /\ pc' = "thrown"
  /\ UNCHANGED <<caller, windowVars, extent, waited, lveSwapChain, previous,
                 lvePipeline, imageIndex, result, inFlight, frameVars,
                 stalePending, suboptimalPending>>

\* ------------------------------------------------------ recreateSwapChain
\* auto extent = lveWindow.getExtent();
RecreateEntry ==
  /\ pc = "rsc_entry"
  /\ extent' = winExtent
  /\ waited' = FALSE
  /\ pc' = "rsc_loop"
  /\ UNCHANGED <<caller, windowVars, chainVars, imageIndex, result,
                 inFlight, frameVars, stalePending, suboptimalPending>>

\* Mutant: no wait for a non-degenerate extent.
ExtentLoopCond_NoWait(e) == FALSE

\* while (extent.width == 0 || extent.height == 0)
ExtentLoopCond(e) == e[1] = 0 \/ e[2] = 0

RecreateLoopTest ==
  /\ pc = "rsc_loop"
  /\ pc' = IF ExtentLoopCond(extent) THEN "rsc_read" ELSE "rsc_idle"
  /\ UNCHANGED <<caller, windowVars, extent, waited, chainVars,
                 imageIndex, result, inFlight, frameVars, stalePending,
                 suboptimalPending>>

\* loop body, first statement: extent = lveWindow.getExtent();
RecreateRead ==
  /\ pc = "rsc_read"
  /\ extent' = winExtent
  /\ waited' = TRUE
  /\ pc' = "rsc_wait"
  /\ UNCHANGED <<caller, windowVars, chainVars, imageIndex, result,
                 inFlight, frameVars, stalePending, suboptimalPending>>

\* loop body, second statement: glfwWaitEvents() returns only once at least
\* one event has arrived, and has dispatched what arrived.
RecreateWaitEvents ==
  /\ pc = "rsc_wait"
  /\ \E batch \in Batches \ {<<>>} : DispatchEvents(batch)
  /\ pc' = "rsc_loop"
  /\ UNCHANGED <<caller, extent, waited, chainVars, imageIndex, result,
                 inFlight, frameVars, stalePending, suboptimalPending>>

\* Mutant: recreateSwapChain does not wait for the device.
RecreateWaitIdle_NoWait ==
  /\ pc = "rsc_idle"
  /\ pc' = "rsc_build"
  /\ UNCHANGED <<caller, windowVars, extent, waited, chainVars,
                 imageIndex, result, inFlight, frameVars, stalePending,
                 suboptimalPending>>

\* vkDeviceWaitIdle(lveDevice.device()) returns when no work is in flight.
RecreateWaitIdle ==
  /\ pc = "rsc_idle"
  /\ DeviceIdle
  /\ pc' = "rsc_build"
  /\ UNCHANGED <<caller, windowVars, extent, waited, chainVars,
                 imageIndex, result, inFlight, frameVars, stalePending,
                 suboptimalPending>>

\* The render pass handle of a chain built while `old` is still alive.
NewRenderPass(old) == IF old = <<>> THEN 0 ELSE 1 - old[1].renderPass

\* std::make_unique<LveSwapChain>(lveDevice, extent [, old]); the platform
\* chooses the image count n.
NewSwapChain(ext, n, old) ==
  [extent |-> ext, imageCount |-> n, renderPass |-> NewRenderPass(old)]

\* Mutant: the set is freed and reallocated on every recreation.
ReallocCommandBuffers_Always(chain, bufs) == createCommandBuffers(chain)

\* Mutant: the size comparison is lost and the old set is always kept.
ReallocCommandBuffers_Keep(chain, bufs) == bufs

\* if (lveSwapChain->imageCount() != commandBuffers.size())
\*     { freeCommandBuffers(); createCommandBuffers(); }
ReallocCommandBuffers(chain, bufs) ==
  IF chain.imageCount # Len(bufs) THEN createCommandBuffers(chain) ELSE bufs

\* Mutant: the pipeline is built for the first chain only and kept afterwards.
createPipeline_Once(chain) ==
  IF lvePipeline = <<>> THEN <<[renderPass |-> chain.renderPass]>> ELSE lvePipeline

\* createPipeline(): pipelineConfig.renderPass = lveSwapChain->getRenderPass()
createPipeline(chain) == <<[renderPass |-> chain.renderPass]>>

\* The extent handed to the LveSwapChain constructor.
BuildExtent == extent

\* Mutant: the owned chain is destroyed before the new one is constructed.
MovedPrevious_Reset(old) == <<>>

\* std::move(lveSwapChain): the owned chain (none in the constructor's call)
\* becomes the constructor's argument.
MovedPrevious(old) == old

\* if (lveSwapChain == nullptr) make_unique<LveSwapChain>(lveDevice, extent)
\* else make_unique<LveSwapChain>(lveDevice, extent, std::move(lveSwapChain)):
\* the constructor starts; the member holds nothing until it is assigned.
RecreateConstruct ==
  /\ pc = "rsc_build"
  /\ previous' = MovedPrevious(lveSwapChain)
  /\ lveSwapChain' = <<>>
  /\ pc' = "rsc_construct"
  /\ UNCHANGED <<caller, windowVars, extent, waited, lvePipeline, commandBuffers,
                 imageIndex, result, inFlight, frameVars, stalePending,
                 suboptimalPending>>

\* Tail of recreateSwapChain: the constructor finishes and releases the chain
\* it was given, the new chain is assigned, the command buffers are adjusted
\* when a chain was replaced, the pipeline is rebuilt, control returns.
RecreateBuild ==
  /\ pc = "rsc_construct"
  /\ \E n \in ImageCounts :
       LET chain == NewSwapChain(BuildExtent, n, previous) IN
         /\ lveSwapChain' = <<chain>>
         /\ commandBuffers' = IF previous = <<>> THEN commandBuffers
                              ELSE ReallocCommandBuffers(chain, commandBuffers)
         /\ lvePipeline' = createPipeline(chain)
  /\ previous' = <<>>
  /\ recreated' = TRUE
  /\ suboptimalPending' = FALSE
  /\ stalePending' = IF stalePending = "stale" THEN "rebuilt" ELSE stalePending
  /\ waited' = FALSE
  /\ pc' = IF caller = "ctor" THEN "ctor_cb" ELSE "run_loop"
  /\ UNCHANGED <<caller, windowVars, extent, imageIndex, result, inFlight,
                 acquired, recorded, submitted, recording>>

\* A constructor or allocation inside the tail of recreateSwapChain throws
\* (std::runtime_error): the exception leaves recreateSwapChain and its
\* caller, and unwinding releases the constructor's argument.
RecreateFail ==
  /\ pc = "rsc_construct"
  /\ previous' = <<>>
  /\ pc' = "thrown"
  /\ UNCHANGED <<caller, windowVars, extent, waited, lveSwapChain, lvePipeline,
                 commandBuffers, imageIndex, result, inFlight, frameVars,
                 stalePending, suboptimalPending>>

\* -------------------------------------------------------------------- run
\* while (!lveWindow.shouldClose()) { glfwPollEvents(); drawFrame(); }
RunLoop ==
  /\ pc = "run_loop"
  /\ ~shouldClose
  /\ \E batch \in Batches : DispatchEvents(batch)
  /\ acquired' = "none"
  /\ recorded' = FALSE
  /\ submitted' = FALSE
  /\ recreated' = FALSE
  /\ recording' = <<>>
  /\ pc' = "acquire"
  /\ UNCHANGED <<caller, extent, waited, chainVars, imageIndex, result,
                 inFlight, stalePending, suboptimalPending>>

RunExit ==
  /\ pc = "run_loop"
  /\ shouldClose
  /\ pc' = "run_idle"
  /\ UNCHANGED <<caller, windowVars, extent, waited, chainVars,
                 imageIndex, result, inFlight, frameVars, stalePending,
                 suboptimalPending>>

\* vkDeviceWaitIdle(lveDevice.device()); then run() returns.
RunWaitIdle ==
  /\ pc = "run_idle"
  /\ DeviceIdle
  /\ pc' = "returned"
  /\ UNCHANGED <<caller, windowVars, extent, waited, chainVars,
                 imageIndex, result, inFlight, frameVars, stalePending,
                 suboptimalPending>>

\* -------------------------------------------------------------- drawFrame
\* LveSwapChain::acquireNextImage(&imageIndex).  A usable result (SUCCESS or
\* SUBOPTIMAL) names an image of the chain whose previous submission has
\* completed: the chain waits for that image's completion signal.  Any other
\* result leaves imageIndex unwritten.
AcquireNextImage ==
  /\ pc = "acquire"
  /\ \E r \in VkResults :
       /\ result' = r
       /\ acquired' = r
       /\ IF r \in {VK_SUCCESS, VK_SUBOPTIMAL_KHR}
            THEN \E i \in 0..(imageCount - 1) :
                    /\ inFlight[i] = 0
                    /\ imageIndex' = i
            ELSE imageIndex' = imageIndex
       /\ stalePending' = IF r = VK_ERROR_OUT_OF_DATE_KHR THEN "stale" ELSE stalePending
       /\ suboptimalPending' = IF r = VK_SUBOPTIMAL_KHR THEN TRUE ELSE suboptimalPending
  /\ pc' = "df_acquired"
  /\ UNCHANGED <<caller, windowVars, extent, waited, chainVars,
                 inFlight, recorded, submitted, recreated, recording>>

\* Mutant: the OUT_OF_DATE branch is missing, the frame goes on to record.
DrawFrameAcquireCheck_FallThrough ==
  /\ pc = "df_acquired"
  /\ IF result # VK_SUCCESS /\ result # VK_SUBOPTIMAL_KHR
          /\ result # VK_ERROR_OUT_OF_DATE_KHR
       THEN pc' = "thrown"
       ELSE pc' = "record"
  /\ UNCHANGED <<caller, windowVars, extent, waited, chainVars, imageIndex,
                 result, inFlight, frameVars, stalePending, suboptimalPending>>

\* Mutant: the OUT_OF_DATE branch returns without recreating the chain.
DrawFrameAcquireCheck_NoRecreate ==
  /\ pc = "df_acquired"
  /\ IF result = VK_ERROR_OUT_OF_DATE_KHR
       THEN pc' = "run_loop"
       ELSE IF result # VK_SUCCESS /\ result # VK_SUBOPTIMAL_KHR
              THEN pc' = "thrown"
              ELSE pc' = "record"
  /\ UNCHANGED <<caller, windowVars, extent, waited, chainVars, imageIndex,
                 result, inFlight, frameVars, stalePending, suboptimalPending>>

\* Mutant: the fatal test after the acquire is missing.
DrawFrameAcquireCheck_NoThrow ==
  /\ pc = "df_acquired"
  /\ IF result = VK_ERROR_OUT_OF_DATE_KHR
       THEN pc' = "rsc_entry" /\ caller' = "acquire"
       ELSE pc' = "record" /\ caller' = caller
  /\ UNCHANGED <<windowVars, extent, waited, chainVars, imageIndex,
                 result, inFlight, frameVars, stalePending, suboptimalPending>>

\* if (result == VK_ERROR_OUT_OF_DATE_KHR) { recreateSwapChain(); return; }
\* if (result != VK_SUCCESS && result != VK_SUBOPTIMAL_KHR) throw ...
DrawFrameAcquireCheck ==
  /\ pc = "df_acquired"
  /\ IF result = VK_ERROR_OUT_OF_DATE_KHR
       THEN pc' = "rsc_entry" /\ caller' = "acquire"
       ELSE IF result # VK_SUCCESS /\ result # VK_SUBOPTIMAL_KHR
              THEN pc' = "thrown" /\ caller' = caller
              ELSE pc' = "record" /\ caller' = caller
  /\ UNCHANGED <<windowVars, extent, waited, chainVars, imageIndex,
                 result, inFlight, frameVars, stalePending, suboptimalPending>>

\* for (int j = 0; j < 4; j++)
InstanceCount == 4

\* Mutant: the vertical step is applied to the colour and the colour step to
\* the offset.
PushConstantData_SwappedSteps(j) ==
  [offset |-> <<0, -40 + j * 20>>, color |-> <<0, 0, 20 + 25 * j>>]

\* push.offset = {0.f, -0.4f + j * 0.25f}; push.color = {0.f, 0.f, 0.2f + 0.2f * j}
\* in hundredths.
PushConstantData(j) ==
  [offset |-> <<0, -40 + j * 25>>, color |-> <<0, 0, 20 + 20 * j>>]

\* The body of the instance loop, from instance j on: push constants, draw.
RECURSIVE DrawLoop(_)
DrawLoop(j) ==
  IF j < InstanceCount
    THEN << <<"vkCmdPushConstants", PushConstantData(j)>>, <<"LveModel::draw", j>> >>
           \o DrawLoop(j + 1)
    ELSE <<>>

\* Mutant: the draws are issued before the pipeline and the model are bound.
RecordedCommands_DrawBeforeBind(idx, chain, pipeline) ==
  << <<"vkBeginCommandBuffer", idx>>,
     <<"vkCmdBeginRenderPass", chain.renderPass>>,
     <<"vkCmdSetViewport", chain.extent>>,
     <<"vkCmdSetScissor", chain.extent>> >>
  \o DrawLoop(0)
  \o << <<"LvePipeline::bind", pipeline.renderPass>>,
        <<"LveModel::bind", idx>>,
        <<"vkCmdEndRenderPass", idx>>,
        <<"vkEndCommandBuffer", idx>> >>

\* The commands recordCommandBuffer(idx) puts into commandBuffers[idx], in
\* order, each with the argument that matters here.
RecordedCommands(idx, chain, pipeline) ==
  << <<"vkBeginCommandBuffer", idx>>,
     <<"vkCmdBeginRenderPass", chain.renderPass>>,
     <<"vkCmdSetViewport", chain.extent>>,
     <<"vkCmdSetScissor", chain.extent>>,
     <<"LvePipeline::bind", pipeline.renderPass>>,
     <<"LveModel::bind", idx>> >>
  \o DrawLoop(0)
  \o << <<"vkCmdEndRenderPass", idx>>,
        <<"vkEndCommandBuffer", idx>> >>

\* recordCommandBuffer(imageIndex): records commandBuffers[imageIndex]; a
\* failing vkBeginCommandBuffer / vkEndCommandBuffer throws.
RecordCommandBuffer ==
  /\ pc = "record"
  /\ imageIndex < Len(commandBuffers)
  /\ \E ok \in BOOLEAN :
       IF ok THEN /\ commandBuffers' = [commandBuffers EXCEPT ![imageIndex + 1] = "recorded"]
                  /\ recorded' = TRUE
                  /\ recording' = RecordedCommands(imageIndex, SwapChain, lvePipeline[1])
                  /\ pc' = "submit"
             ELSE /\ UNCHANGED <<commandBuffers, recorded, recording>>
                  /\ pc' = "thrown"
  /\ UNCHANGED <<caller, windowVars, extent, waited, lveSwapChain, previous,
                 lvePipeline, imageIndex, result, inFlight, acquired, submitted,
                 recreated, stalePending, suboptimalPending>>

\* LveSwapChain::submitCommandBuffers(&commandBuffers[imageIndex], &imageIndex):
\* enqueues the buffer for the image and presents; the returned status is the
\* platform's.  A failing status may come with or without the work enqueued.
SubmitCommandBuffers ==
  /\ pc = "submit"
  /\ \E r \in VkResults, enqueued \in BOOLEAN :
       /\ (r # VK_ERROR_DEVICE_LOST) => enqueued
       /\ result' = r
       /\ submitted' = enqueued
       /\ inFlight' = IF enqueued THEN [inFlight EXCEPT ![imageIndex] = @ + 1]
                                  ELSE inFlight
  /\ pc' = "df_submitted"
  /\ UNCHANGED <<caller, windowVars, extent, waited, chainVars,
                 imageIndex, acquired, recorded, recreated, recording,
                 stalePending, suboptimalPending>>

\* Mutant: SUBOPTIMAL is missing from the recreate test, so it reaches the
\* fatal test.
DrawFrameSubmitCheck_SuboptimalFatal ==
  /\ pc = "df_submitted"
  /\ IF \/ result = VK_ERROR_OUT_OF_DATE_KHR
        \/ framebufferResized
       THEN /\ framebufferResized' = FALSE
            /\ pc' = "rsc_entry"
            /\ caller' = "submit"
       ELSE /\ framebufferResized' = framebufferResized
            /\ caller' = caller
            /\ pc' = IF result # VK_SUCCESS THEN "thrown" ELSE "run_loop"
  /\ stalePending' = "no"
  /\ UNCHANGED <<winExtent, shouldClose, extent, waited, chainVars,
                 imageIndex, result, inFlight, frameVars, suboptimalPending>>

\* Mutant: the window-resized flag is not looked at after the submit.
DrawFrameSubmitCheck_IgnoreResize ==
  /\ pc = "df_submitted"
  /\ IF \/ result = VK_ERROR_OUT_OF_DATE_KHR
        \/ result = VK_SUBOPTIMAL_KHR
       THEN /\ framebufferResized' = FALSE
            /\ pc' = "rsc_entry"
            /\ caller' = "submit"
       ELSE /\ framebufferResized' = framebufferResized
            /\ caller' = caller
            /\ pc' = IF result # VK_SUCCESS THEN "thrown" ELSE "run_loop"
  /\ stalePending' = "no"
  /\ UNCHANGED <<winExtent, shouldClose, extent, waited, chainVars,
                 imageIndex, result, inFlight, frameVars, suboptimalPending>>

\* if (result == OUT_OF_DATE || result == SUBOPTIMAL || wasWindowResized())
\*     { resetWindowResizedFlag(); recreateSwapChain(); return; }
\* if (result != VK_SUCCESS) throw ...
DrawFrameSubmitCheck ==
  /\ pc = "df_submitted"
  /\ IF \/ result = VK_ERROR_OUT_OF_DATE_KHR
        \/ result = VK_SUBOPTIMAL_KHR
        \/ framebufferResized
       THEN /\ framebufferResized' = FALSE
            /\ pc' = "rsc_entry"
            /\ caller' = "submit"
       ELSE /\ framebufferResized' = framebufferResized
            /\ caller' = caller
            /\ pc' = IF result # VK_SUCCESS THEN "thrown" ELSE "run_loop"
  /\ stalePending' = "no"
  /\ UNCHANGED <<winExtent, shouldClose, extent, waited, chainVars,
                 imageIndex, result, inFlight, frameVars, suboptimalPending>>

\* ------------------------------------------------------------------- Next
\* The steps the control thread takes on its own.
ProgramStep ==
  \/ CtorBegin
  \/ CtorCreateCommandBuffers
  \/ RecreateEntry
  \/ RecreateLoopTest
  \/ RecreateRead
  \/ RecreateWaitIdle
  \/ RecreateConstruct
  \/ RecreateBuild
  \/ RunLoop
  \/ RunExit
  \/ RunWaitIdle
  \/ AcquireNextImage
  \/ DrawFrameAcquireCheck
  \/ RecordCommandBuffer
  \/ SubmitCommandBuffers
  \/ DrawFrameSubmitCheck

Next ==
  \/ ProgramStep
  \/ RecreateWaitEvents
  \/ RecreateFail
  \/ GpuComplete

Spec == Init /\ [][Next]_vars

\* The control thread runs whenever it is not blocked and the device finishes
\* what was submitted.  glfwWaitEvents returns only when the window system
\* has an event, which it does not owe; a constructor is not bound to fail.
FairSpec == Spec /\ WF_vars(ProgramStep) /\ WF_vars(GpuComplete)

TypeOK ==
  /\ winExtent \in Extents /\ extent \in Extents
  /\ Len(lveSwapChain) <= 1 /\ Len(lvePipeline) <= 1
  /\ imageIndex \in ImageSlots
  /\ result \in VkResults

\* ================================================================ claims

FramePcs == {"run_loop", "acquire", "df_acquired", "record", "submit", "df_submitted"}

\* C1: right after every completed recreateSwapChain that replaced a chain,
\* and after the constructor, commandBuffers has one entry per image of the
\* current chain (and it stays so through the frame that follows).
C1_BufferSetMatchesImageCount ==
  pc \in FramePcs => Len(commandBuffers) = imageCount

\* A recreation on the submit path has just returned and every buffer is
\* fresh although this frame recorded one: the set was freed and reallocated.
C1_Witness ==
  /\ pc = "run_loop" /\ caller = "submit" /\ recreated /\ recorded
  /\ \A k \in DOMAIN commandBuffers : commandBuffers[k] = "initial"
  /\ Len(commandBuffers) = MaxImages

C3_UnexpectedSubmitResultIsFatal ==
  (caller = "submit" /\ pc \in RecreatePcs) => result # VK_ERROR_DEVICE_LOST

\* C4: the extent handed to the swap chain constructor, and so the extent of
\* every chain ever owned, is non-zero in both dimensions.
C4_BuildExtentNonZero ==
  /\ pc = "rsc_build" => ~Degenerate(BuildExtent)
  /\ lveSwapChain # <<>> => ~Degenerate(SwapChain.extent)

\* A chain is about to be built by a recreation that had to wait because the
\* window reported a zero extent.
C4_Witness ==
  pc = "rsc_build" /\ waited /\ lveSwapChain # <<>>

\* C5: when the chain is constructed, the extent the window reports at that
\* moment is non-zero in both dimensions.
C5_WindowExtentNonZeroAtBuild ==
  pc = "rsc_build" => ~Degenerate(winExtent)

\* C6: a drawFrame whose acquire returned OUT_OF_DATE records nothing, submits
\* nothing, and has recreated the chain (from the acquire branch) when it
\* returns.
C6_StaleAcquireSkipsFrame ==
  acquired = VK_ERROR_OUT_OF_DATE_KHR =>
    /\ ~recorded /\ ~submitted
    /\ pc \notin {"record", "submit", "df_submitted"}
    /\ pc = "run_loop" => (recreated /\ caller = "acquire")

\* The drawFrame with the OUT_OF_DATE acquire has returned.
C6_Witness ==
  acquired = VK_ERROR_OUT_OF_DATE_KHR /\ pc = "run_loop" /\ recreated

\* A cycle (acquire, record, submit) has just completed and it is the first
\* one since an acquire returned OUT_OF_DATE.
FirstCycleAfterStale == pc = "df_submitted" /\ stalePending # "no"

\* C7 as stated: the first cycle completed after an OUT_OF_DATE acquire uses
\* a chain whose extent is the extent the window reports at that time.
C7_NextCycleExtentIsCurrent ==
  FirstCycleAfterStale => SwapChain.extent = winExtent

\* C7 amended: that cycle uses a chain built after the OUT_OF_DATE acquire,
\* with the non-zero extent recreateSwapChain last read from the window.
C7_NextCycleUsesRebuiltChain ==
  FirstCycleAfterStale =>
    /\ stalePending = "rebuilt"
    /\ SwapChain.extent = extent
    /\ ~Degenerate(SwapChain.extent)

\* The first cycle after an OUT_OF_DATE acquire completed on the rebuilt
\* chain while the window has since been resized.
C7_Witness ==
  FirstCycleAfterStale /\ stalePending = "rebuilt" /\ SwapChain.extent # winExtent

\* C8: after a SUBOPTIMAL acquire the frame is recorded and submitted, and
\* the chain is rebuilt before acquireNextImage is called again.
C8_SuboptimalAcquireRebuilds ==
  /\ (acquired = VK_SUBOPTIMAL_KHR /\ pc = "df_submitted") => recorded
  /\ pc = "acquire" => ~suboptimalPending

\* C9: a recreation waiting in its loop, with the window restored to a
\* non-zero extent and staying there, leaves recreateSwapChain.
C9_RestoreResumes ==
  (pc \in {"rsc_read", "rsc_wait"} /\ ~Degenerate(winExtent))
     ~> (pc \notin RecreatePcs \/ Degenerate(winExtent))

\* C10: once close is requested run() returns (or a fatal error ends it),
\* and it returns only with the device idle.
C10_CloseTerminates ==
  /\ [](pc = "returned" => DeviceIdle)
  /\ shouldClose ~> (pc \in {"returned", "thrown"})

\* C11: drawFrame's tests never throw on an expected transient condition: an
\* OUT_OF_DATE acquire goes to recreation, a SUBOPTIMAL acquire goes on to
\* record, and an OUT_OF_DATE or SUBOPTIMAL submit or a set window-resized
\* flag goes to recreation.
C11_TransientsAreNotFatal ==
  [][ pc' # pc =>
        /\ (pc = "df_acquired" /\ result = VK_ERROR_OUT_OF_DATE_KHR) => pc' = "rsc_entry"
        /\ (pc = "df_acquired" /\ result = VK_SUBOPTIMAL_KHR) => pc' = "record"
        /\ (pc = "df_submitted" /\ (\/ result = VK_ERROR_OUT_OF_DATE_KHR
                                    \/ result = VK_SUBOPTIMAL_KHR
                                    \/ framebufferResized)) => pc' = "rsc_entry" ]_vars

\* A SUBOPTIMAL submit after a SUBOPTIMAL acquire is being handled by
\* recreation.
C11_Witness ==
  /\ pc \in RecreatePcs /\ caller = "submit"
  /\ acquired = VK_SUBOPTIMAL_KHR /\ result = VK_SUBOPTIMAL_KHR

\* C12: while a replacing chain is under construction the old chain is still
\* alive (held by the constructor); whenever drawFrame can run, and right
\* after every completed recreateSwapChain, the app owns exactly one chain
\* and the old one has been released.
C12_OldChainOutlivesConstruction ==
  /\ (pc = "rsc_construct" /\ caller # "ctor") => Len(previous) = 1
  /\ pc \in (FramePcs \cup {"ctor_cb"}) => (Len(lveSwapChain) = 1 /\ previous = <<>>)

\* A chain built by a recreation is being replaced in turn: the constructor
\* of its successor holds it.
C12_Witness ==
  pc = "rsc_construct" /\ Len(previous) = 1 /\ previous[1].renderPass = 1

IsPush(c) == c[1] = "vkCmdPushConstants"

\* The push-constant records of a recorded command sequence, in order.
PushesOf(cmds) ==
  LET ps == SelectSeq(cmds, IsPush) IN [k \in 1..Len(ps) |-> ps[k][2]]

\* C13: every recording pushes exactly 4 records, for instances 0..3 in
\* order, with offset (0, -0.40 + 0.25 i) and colour (0, 0, 0.20 + 0.20 i),
\* here in hundredths; the sequence is the same for every frame.
C13_PushConstantsPerInstance ==
  recorded =>
    PushesOf(recording) =
      << [offset |-> <<0, -40>>, color |-> <<0, 0, 20>>],
         [offset |-> <<0, -15>>, color |-> <<0, 0, 40>>],
         [offset |-> <<0,  10>>, color |-> <<0, 0, 60>>],
         [offset |-> <<0,  35>>, color |-> <<0, 0, 80>>] >>

\* A frame was recorded for the second image of a chain built by a
\* recreation at 400 x 300.
C13_Witness ==
  /\ recorded /\ pc = "submit" /\ imageIndex = 1
  /\ SwapChain.extent = <<400, 300>>

\* C14: from the end of the device-idle wait, which follows the extent wait
\* loop, through the construction of the new chain and the release of the
\* old one, to the return of recreateSwapChain, no work is in flight.
C14_IdleWhileChainReplaced ==
  /\ pc \in {"rsc_build", "rsc_construct"} => (DeviceIdle /\ ~ExtentLoopCond(extent))
  /\ (pc \in {"run_loop", "ctor_cb"} /\ recreated) => DeviceIdle

\* The chain is being replaced in a drawFrame that submitted work, after the
\* recreation had to wait for a non-zero extent.
C14_Witness ==
  pc = "rsc_construct" /\ submitted /\ waited /\ Len(previous) = 1

C16_BufferSetReusedWhenCountUnchanged ==
  [][ (pc = "rsc_construct" /\ pc' = "run_loop") =>
        IF lveSwapChain'[1].imageCount = Len(commandBuffers)
          THEN commandBuffers' = commandBuffers
          ELSE commandBuffers' = [k \in 1..lveSwapChain'[1].imageCount |-> "initial"] ]_vars

\* A recreation on the submit path has returned and the buffer this frame
\* recorded is still in the set: the set was reused.
C16_Witness ==
  /\ pc = "run_loop" /\ caller = "submit" /\ recreated /\ recorded
  /\ imageIndex < Len(commandBuffers)
  /\ commandBuffers[imageIndex + 1] = "recorded"

\* The operations of a recorded command sequence, in order.
OpsOf(cmds) == [k \in 1..Len(cmds) |-> cmds[k][1]]

\* C17: a submitted frame was recorded in the same drawFrame into the buffer
\* of the acquired index, in the order begin, begin render pass, viewport and
\* scissor at the full chain extent, bind pipeline, bind model, 4 times
\* (push constants, draw), end render pass, end.
C17_SubmittedFrameIsFreshlyRecorded ==
  (pc = "df_submitted" /\ submitted) =>
    /\ recorded
    /\ commandBuffers[imageIndex + 1] = "recorded"
    /\ OpsOf(recording) =
         << "vkBeginCommandBuffer", "vkCmdBeginRenderPass",
            "vkCmdSetViewport", "vkCmdSetScissor",
            "LvePipeline::bind", "LveModel::bind",
            "vkCmdPushConstants", "LveModel::draw",
            "vkCmdPushConstants", "LveModel::draw",
            "vkCmdPushConstants", "LveModel::draw",
            "vkCmdPushConstants", "LveModel::draw",
            "vkCmdEndRenderPass", "vkEndCommandBuffer" >>
    /\ recording[1][2] = imageIndex
    /\ recording[3][2] = SwapChain.extent
    /\ recording[4][2] = SwapChain.extent

\* A frame recorded for the second image has been submitted while the first
\* image's submission is still in flight.
C17_Witness ==
  /\ pc = "df_submitted" /\ submitted /\ imageIndex = 1
  /\ inFlight[0] = 1 /\ inFlight[1] = 1

\* C18: a drawFrame whose acquire returned an unexpected error records
\* nothing, submits nothing, recreates nothing, and ends by throwing.
C18_UnexpectedAcquireResultIsFatal ==
  acquired = VK_ERROR_DEVICE_LOST =>
    /\ pc \in {"df_acquired", "thrown"}
    /\ ~recorded /\ ~submitted /\ ~recreated

\* drawFrame has thrown on the unexpected acquire result, with a chain that
\* an earlier recreation built.
C18_Witness ==
  /\ acquired = VK_ERROR_DEVICE_LOST /\ pc = "thrown"
  /\ Len(lveSwapChain) = 1 /\ SwapChain.renderPass = 1

\* C19: the window-resized flag is cleared only by drawFrame's test after the
\* submit, which then enters recreateSwapChain; a flag that is set at that
\* test is cleared there and leads to recreation; entering recreation after
\* an OUT_OF_DATE acquire leaves the flag as it is.
C19_ResizeRequestNotLost ==
  [][ /\ (framebufferResized /\ ~framebufferResized') =>
              (pc = "df_submitted" /\ pc' = "rsc_entry" /\ caller' = "submit")
      /\ (pc = "df_submitted" /\ framebufferResized /\ pc' # pc) =>
              (pc' = "rsc_entry" /\ ~framebufferResized')
      /\ (pc = "df_acquired" /\ pc' = "rsc_entry") =>
              framebufferResized' = framebufferResized ]_vars

\* The flag alone (submit returned success) has sent drawFrame into
\* recreation, and it has been cleared.
C19_Witness ==
  /\ pc = "rsc_entry" /\ caller = "submit"
  /\ result = VK_SUCCESS /\ ~framebufferResized
====
